---- MODULE Spec2Model ----
(***************************************************************************)
(* A model of dstat (dstat.c, lib/dstat.h): one run of main(), from option *)
(* processing to exit.  The program is single threaded; the model follows  *)
(* main's control flow with a program counter and takes one step per       *)
(* option, per directory argument, per directory entry read, per renderer. *)
(*                                                                         *)
(* Every operation is an operator from a state record to the SET of        *)
(* states it can produce: the set has more than one element where the      *)
(* environment decides (fopen or fprintf failing) and where the C code     *)
(* has undefined behaviour (the outcomes a build can produce).             *)
(***************************************************************************)
EXTENDS Integers, Sequences, FiniteSets, TLC

VARIABLES optv, args, pc, status, opt, de, paths, cwd, errno,
          opt_index, param_index, dir_cnt, cursor, dp, caller,
          stdout, stderr, outfile, logfile, calls, rendered, scanned

vars == <<optv, args, pc, status, opt, de, paths, cwd, errno,
          opt_index, param_index, dir_cnt, cursor, dp, caller,
          stdout, stderr, outfile, logfile, calls, rendered, scanned>>

(***************************************************************************)
(* Bounds of the model.                                                    *)
(***************************************************************************)
\* The largest number of directory arguments on the command line.
MaxArgs == 2

(***************************************************************************)
(* Constants of the program.                                               *)
(***************************************************************************)
DFS == "/"
CD == "."
PD == ".."

STAT_HDR == <<"Regular", "Dir", "Link", "Block", "Char",
              "FIFO", "Socket", "WhtOut", "Unknown">>

STAT_CSV == <<"Regular", "Directory", "Link", "Block Special",
              "Character Special", "FIFO", "Socket", "White Out",
              "Unknown">>

\* de.num_hdr = sizeof(STAT_HDR) / sizeof(STAT_HDR[0])
num_hdr == Len(STAT_HDR)

\* sizeof(argv[param_index]): the size of a pointer, not of the string.
sizeof_argv_elem == 8

\* The names given with -o and -l.
OutfileName == "out.txt"
LogfileName == "log.txt"

\* The counters of struct dir_ent_s, in the order of its declaration.
Counters == {"d_fif", "d_chr", "d_dir", "d_blk", "d_reg",
             "d_lnk", "d_sok", "d_wht", "d_unk"}

(***************************************************************************)
(* C strings that name paths: absolute or not, and the components.         *)
(***************************************************************************)
Path(abs, comps) == [abs |-> abs, comps |-> comps]

NullPath == Path(FALSE, <<>>)

RECURSIVE JoinComps(_)
JoinComps(cs) ==
    IF cs = <<>> THEN ""
    ELSE IF Len(cs) = 1 THEN cs[1]
    ELSE cs[1] \o DFS \o JoinComps(Tail(cs))

\* The characters of the string.
StrOf(p) == IF p.abs THEN DFS \o JoinComps(p.comps) ELSE JoinComps(p.comps)

strlen(p) == Len(StrOf(p))

(***************************************************************************)
(* The file system the run sees.  Directories and files are absolute       *)
(* paths, written as their sequence of components.                         *)
(***************************************************************************)
StartCwd == <<"home", "user">>

DirSet == { <<>>, <<"home">>, <<"home", "user">>, <<"home", "user", "sub">>,
            <<"d">>, <<"locked">> }

FileSet == { <<"home", "user", "f">> }

\* Directories stat() accepts and opendir() refuses (no read permission).
Locked == { <<"locked">> }

Ent(name, type) == [d_name |-> name, d_type |-> type]

\* What readdir() yields for a directory, in order.  "DT_OTHER" is a d_type
\* value that sys/dirent.h does not name.
Listing(at) ==
    IF at = <<"home", "user">>
    THEN << Ent(".", "DT_DIR"), Ent("..", "DT_DIR"),
            Ent("sub", "DT_DIR"), Ent("f", "DT_REG") >>
    ELSE IF at = <<"d">>
    THEN << Ent("..", "DT_DIR"), Ent(".", "DT_DIR"),
            Ent("b", "DT_BLK"), Ent("c", "DT_CHR"), Ent("l", "DT_LNK"),
            Ent("p", "DT_FIFO"), Ent("s", "DT_SOCK"), Ent("w", "DT_WHT"),
            Ent("u", "DT_UNKNOWN"), Ent("x", "DT_OTHER") >>
    ELSE << Ent(".", "DT_DIR"), Ent("..", "DT_DIR") >>

\* Path resolution as the kernel does it, from directory `at`.
RECURSIVE Walk(_, _)
Walk(at, comps) ==
    IF comps = <<>>
    THEN [err |-> IF at \in DirSet \cup FileSet THEN "0" ELSE "ENOENT", at |-> at]
    ELSE IF at \notin DirSet
    THEN [err |-> IF at \in FileSet THEN "ENOTDIR" ELSE "ENOENT", at |-> at]
    ELSE LET c == Head(comps)
             to == IF c = CD THEN at
                   ELSE IF c = PD
                        THEN (IF at = <<>> THEN at ELSE SubSeq(at, 1, Len(at) - 1))
                   ELSE Append(at, c)
         IN  Walk(to, Tail(comps))

Lookup(wd, p) == Walk(IF p.abs THEN <<>> ELSE wd, p.comps)

\* The directory arguments a command line is made of.
ArgForms == { Path(TRUE, <<"d">>), Path(TRUE, <<"home", "user">>),
              Path(FALSE, <<".">>), Path(FALSE, <<"sub">>),
              Path(FALSE, <<"f">>), Path(TRUE, <<"nope">>),
              Path(TRUE, <<"locked">>) }

RECURSIVE SeqsUpTo(_, _)
SeqsUpTo(S, n) ==
    IF n = 0 THEN { <<>> }
    ELSE LET shorter == SeqsUpTo(S, n - 1)
         IN  shorter \cup { Append(q, x) : q \in shorter, x \in S }

\* The option letters of a command line: format flags in a fixed order (they
\* commute), then -o and -l in either order.
FlagSeqs ==
    { c \o l \o k \o q : c \in {<<>>, <<"C">>}, l \in {<<>>, <<"L">>},
                         k \in {<<>>, <<"c">>}, q \in {<<>>, <<"q">>} }

FileSeqs == { <<>>, <<"o">>, <<"l">>, <<"o", "l">>, <<"l", "o">> }

OptSeqs == { f \o g : f \in FlagSeqs, g \in FileSeqs }

(***************************************************************************)
(* The state of the process as one record, and its initial value.          *)
(***************************************************************************)
State ==
    [optv |-> optv, args |-> args, pc |-> pc, status |-> status, opt |-> opt,
     de |-> de, paths |-> paths, cwd |-> cwd, errno |-> errno,
     opt_index |-> opt_index, param_index |-> param_index,
     dir_cnt |-> dir_cnt, cursor |-> cursor, dp |-> dp, caller |-> caller,
     stdout |-> stdout, stderr |-> stderr, outfile |-> outfile,
     logfile |-> logfile, calls |-> calls, rendered |-> rendered,
     scanned |-> scanned]

Set(t) ==
    /\ optv' = t.optv /\ args' = t.args /\ pc' = t.pc /\ status' = t.status
    /\ opt' = t.opt /\ de' = t.de /\ paths' = t.paths /\ cwd' = t.cwd
    /\ errno' = t.errno /\ opt_index' = t.opt_index
    /\ param_index' = t.param_index /\ dir_cnt' = t.dir_cnt
    /\ cursor' = t.cursor /\ dp' = t.dp /\ caller' = t.caller
    /\ stdout' = t.stdout /\ stderr' = t.stderr /\ outfile' = t.outfile
    /\ logfile' = t.logfile /\ calls' = t.calls /\ rendered' = t.rendered
    /\ scanned' = t.scanned

\* struct sel_opts_s opt = { ... }
opt_default ==
    [upd |-> FALSE, lin |-> FALSE, csv |-> FALSE, qit |-> FALSE,
     out |-> FALSE, log |-> FALSE, OUTFILE |-> "NULL", LOGFILE |-> "NULL",
     list |-> <<>>]

\* struct dir_ent_s de = { ... }
de_default ==
    [d_fif |-> 0, d_chr |-> 0, d_dir |-> 0, d_blk |-> 0, d_reg |-> 0,
     d_lnk |-> 0, d_sok |-> 0, d_wht |-> 0, d_unk |-> 0,
     num_dir |-> 0, fqdp |-> NullPath]

\* The process at the start of main() for a command line.
InitState(ov, av) ==
    [optv |-> ov, args |-> av, pc |-> "options", status |-> "running",
     opt |-> opt_default, de |-> de_default,
     paths |-> [head |-> <<>>, num_dirs |-> 0],
     cwd |-> StartCwd, errno |-> "0",
     opt_index |-> 1, param_index |-> 1, dir_cnt |-> 0,
     cursor |-> 0, dp |-> [open |-> FALSE, at |-> <<>>, pos |-> 0],
     caller |-> "none",
     stdout |-> "", stderr |-> "", outfile |-> "", logfile |-> "",
     calls |-> <<>>, rendered |-> <<>>, scanned |-> <<>>]

Running(s) == s.status = "running"

\* exit(code): the process ends; stdio handles are not fclose()d.
exit(s, code) == [s EXCEPT !.status = code, !.pc = "exited"]

\* The process is killed by a signal (a trap on undefined behaviour).
Crash(s) == [s EXCEPT !.status = "crashed", !.pc = "exited"]

\* Continue each running state of S with F; ended states stay as they are.
Bind(S, F(_)) == UNION { IF Running(t) THEN F(t) ELSE {t} : t \in S }

strerror(e) == "[" \o e \o "]"

(***************************************************************************)
(* logError and writeOut.                                                  *)
(***************************************************************************)
\* fprintf(opt.LOGFILE, ...) returned less than 1: perror, exit(EXIT_FAILURE).
logWriteFailed(s) ==
    exit([s EXCEPT !.errno = "ENOSPC",
                   !.stderr = @ \o LogfileName \o ": " \o strerror("ENOSPC") \o "\n"],
         "EXIT_FAILURE")

\* logErrorTail with the test "fail" in place of "fail || ! opt.log".
logErrorTail_failOnly(s, fail, msg_buffer) ==
    IF fail
    THEN exit([s EXCEPT !.stdout = @ \o msg_buffer], s.errno)
    ELSE s

\* The end of logError: print and exit(errno), or return to the caller.
logErrorTail(s, fail, msg_buffer) ==
    IF fail \/ ~s.opt.log
    THEN exit([s EXCEPT !.stdout = @ \o msg_buffer], s.errno)
    ELSE s

logError(s, fail, msg) ==
    LET e == IF s.errno = "0" THEN "EPERM" ELSE s.errno
        msg_buffer == msg \o ": " \o strerror(e) \o "\n"
        s1 == [s EXCEPT !.errno = e,
                        !.calls = Append(@, [fail |-> fail, msg |-> msg,
                                             log |-> s.opt.log, errno |-> e])]
    IN  IF s1.opt.log
        THEN IF s1.opt.LOGFILE # "open"
             THEN \* fprintf on a null FILE pointer: undefined behaviour
                  { Crash(s1), logWriteFailed(s1) }
             ELSE \* the write to the log file succeeds or fails
                  { logErrorTail([s1 EXCEPT !.logfile = @ \o msg_buffer],
                                 fail, msg_buffer),
                    logWriteFailed(s1) }
        ELSE { logErrorTail(s1, fail, msg_buffer) }

writeOut(s, msg) ==
    IF s.opt.OUTFILE # "open"
    THEN \* fprintf on a null FILE pointer: undefined behaviour
         { Crash(s) } \cup logError([s EXCEPT !.errno = "EBADF"], TRUE, OutfileName)
    ELSE \* the write to the output file succeeds or fails
         { [s EXCEPT !.outfile = @ \o msg] }
         \cup logError([s EXCEPT !.errno = "ENOSPC"], TRUE, OutfileName)

(***************************************************************************)
(* main: option processing, one option per step.                           *)
(***************************************************************************)
main_option(s) ==
    LET o == s.optv[s.opt_index]
        s1 == [s EXCEPT !.opt_index = @ + 1]
    IN  IF o = "C" THEN { [s1 EXCEPT !.opt.upd = TRUE] }
        ELSE IF o = "L" THEN { [s1 EXCEPT !.opt.lin = TRUE] }
        ELSE IF o = "c" THEN { [s1 EXCEPT !.opt.csv = TRUE] }
        ELSE IF o = "q" THEN { [s1 EXCEPT !.opt.qit = TRUE] }
        ELSE IF o = "o"
        THEN LET s2 == [s1 EXCEPT !.opt.out = TRUE]
             IN  \* fopen succeeds or fails
                 { [s2 EXCEPT !.opt.OUTFILE = "open"] }
                 \cup logError([s2 EXCEPT !.errno = "EACCES"], TRUE, OutfileName)
        ELSE LET s2 == [s1 EXCEPT !.opt.log = TRUE]
             IN  { [s2 EXCEPT !.opt.LOGFILE = "open"] }
                 \cup logError([s2 EXCEPT !.errno = "EACCES"], TRUE, LogfileName)

\* dir_list = createDirList(); param_index = cag_option_get_index(&context)
main_createDirList(s) ==
    { [s EXCEPT !.paths = [head |-> <<>>, num_dirs |-> 0],
                !.param_index = 1, !.dir_cnt = 0, !.pc = "args"] }

(***************************************************************************)
(* The path registry: testDir, createDirNode, addDir.                      *)
(***************************************************************************)
\* testDir counting a path in de.num_dir before it is known to be a
\* directory.
testDir_countsRejected(s, dir) ==
    LET r == Lookup(s.cwd, dir)
    IN  IF r.err = "0" /\ r.at \in DirSet
        THEN IF dir.abs
             THEN { [st |-> [s EXCEPT !.de.fqdp = dir, !.de.num_dir = @ + 1],
                     ret |-> TRUE] }
             ELSE LET s1 == [s EXCEPT !.cwd = r.at]
                      wd == Path(TRUE, r.at)
                      ok == [st |-> [s1 EXCEPT !.de.fqdp = wd,
                                               !.de.num_dir = @ + 1],
                             ret |-> TRUE]
                  IN  IF strlen(wd) > strlen(dir)
                      THEN { ok, [st |-> Crash(s1), ret |-> FALSE] }
                      ELSE { ok }
        ELSE { [st |-> [s EXCEPT !.errno = IF r.err = "0" THEN @ ELSE r.err,
                                 !.de.num_dir = @ + 1],
                ret |-> FALSE] }

\* The set of [st, ret]: the state after the call and the value returned.
testDir(s, dir) ==
    LET r == Lookup(s.cwd, dir)
    IN  IF r.err = "0" /\ r.at \in DirSet
        THEN IF dir.abs
             THEN { [st |-> [s EXCEPT !.de.fqdp = dir, !.de.num_dir = @ + 1],
                     ret |-> TRUE] }
             ELSE LET s1 == [s EXCEPT !.cwd = r.at]        \* chdir(dir)
                      wd == Path(TRUE, r.at)               \* getwd(dir)
                      ok == [st |-> [s1 EXCEPT !.de.fqdp = wd,
                                               !.de.num_dir = @ + 1],
                             ret |-> TRUE]
                  IN  IF strlen(wd) > strlen(dir)
                      THEN \* getwd writes past the end of the buffer asprintf
                           \* sized for the argument: undefined behaviour
                           { ok, [st |-> Crash(s1), ret |-> FALSE] }
                      ELSE { ok }
        ELSE { [st |-> [s EXCEPT !.errno = IF r.err = "0" THEN @ ELSE r.err],
                ret |-> FALSE] }

\* The list is a sequence, the head first; a node is its path string.
createDirNode(dir) == dir

\* addDir dropping an invalid path without a call of logError.
addDir_skip(s, path_arg) ==
    UNION { IF ~Running(t.st) THEN { t.st }
            ELSE IF t.ret
            THEN { [t.st EXCEPT !.paths.head = <<createDirNode(t.st.de.fqdp)>>
                                               \o t.st.paths.head,
                                !.paths.num_dirs = @ + 1] }
            ELSE { t.st }
          : t \in testDir(s, path_arg) }

addDir(s, path_arg) ==
    UNION { IF ~Running(t.st) THEN { t.st }
            ELSE IF t.ret
            THEN LET dir_node == createDirNode(t.st.de.fqdp)
                     next == t.st.paths.head
                 IN  { [t.st EXCEPT !.paths.head = <<dir_node>> \o next,
                                    !.paths.num_dirs = @ + 1] }
            ELSE logError([t.st EXCEPT !.errno = IF @ = "0" THEN "ENOENT" ELSE @],
                          FALSE, StrOf(path_arg))
          : t \in testDir(s, path_arg) }

\* getcwd(safe_dir, sizeof(argv[param_index])) on the buffer holding ".":
\* the set of [st, buf].
getcwd_safe_dir(s, safe_dir) ==
    LET wd == Path(TRUE, s.cwd)
    IN  IF strlen(wd) + 1 <= sizeof_argv_elem
        THEN IF strlen(wd) > strlen(safe_dir)
             THEN \* the buffer was sized for "."; undefined behaviour
                  { [st |-> s, buf |-> wd], [st |-> Crash(s), buf |-> safe_dir] }
             ELSE { [st |-> s, buf |-> wd] }
        ELSE { [st |-> [s EXCEPT !.errno = "ERANGE"], buf |-> safe_dir] }

\* One iteration of the loop over the non-option arguments.
main_arg(s) ==
    LET safe_dir == s.args[s.param_index]
        got == IF StrOf(safe_dir) = CD
               THEN getcwd_safe_dir(s, safe_dir)
               ELSE { [st |-> s, buf |-> safe_dir] }
        added == UNION { IF Running(g.st) THEN addDir(g.st, g.buf) ELSE { g.st }
                         : g \in got }
    IN  { IF Running(t)
          THEN [t EXCEPT !.dir_cnt = @ + 1, !.param_index = @ + 1]
          ELSE t : t \in added }

\* main_check_rest with the test of dir_cnt against 0 in place of 1.
main_check_rest_zero(s) ==
    LET checked ==
            IF s.de.num_dir # s.paths.num_dirs
            THEN logError([s EXCEPT !.errno = "EIO"], TRUE,
                          "directory count mismatch")
            ELSE IF s.dir_cnt = 0 /\ s.opt.upd
            THEN logError([s EXCEPT !.errno = "EINVAL"], TRUE,
                          "continuous update requires multiple directories")
            ELSE { s }
    IN  { IF ~Running(t) THEN t
          ELSE IF ~t.opt.upd THEN [t EXCEPT !.pc = "getPaths", !.cursor = 1]
          ELSE [t EXCEPT !.pc = "displayOutput"] : t \in checked }

\* main_check_rest calling getPaths in continuous mode too.
main_check_rest_alwaysGetPaths(s) ==
    LET checked ==
            IF s.de.num_dir # s.paths.num_dirs
            THEN logError([s EXCEPT !.errno = "EIO"], TRUE,
                          "directory count mismatch")
            ELSE IF s.dir_cnt = 1 /\ s.opt.upd
            THEN logError([s EXCEPT !.errno = "EINVAL"], TRUE,
                          "continuous update requires multiple directories")
            ELSE { s }
    IN  { IF ~Running(t) THEN t
          ELSE [t EXCEPT !.pc = "getPaths", !.cursor = 1] : t \in checked }

\* main_check_rest with the usage test on the number of accepted
\* directories.
main_check_rest_byAccepted(s) ==
    LET checked ==
            IF s.de.num_dir # s.paths.num_dirs
            THEN logError([s EXCEPT !.errno = "EIO"], TRUE,
                          "directory count mismatch")
            ELSE IF s.paths.num_dirs = 1 /\ s.opt.upd
            THEN logError([s EXCEPT !.errno = "EINVAL"], TRUE,
                          "continuous update requires multiple directories")
            ELSE { s }
    IN  { IF ~Running(t) THEN t
          ELSE IF ~t.opt.upd THEN [t EXCEPT !.pc = "getPaths", !.cursor = 1]
          ELSE [t EXCEPT !.pc = "displayOutput"] : t \in checked }

\* main_check_rest without the call of getPaths.
main_check_rest_noScan(s) ==
    LET checked ==
            IF s.de.num_dir # s.paths.num_dirs
            THEN logError([s EXCEPT !.errno = "EIO"], TRUE,
                          "directory count mismatch")
            ELSE IF s.dir_cnt = 1 /\ s.opt.upd
            THEN logError([s EXCEPT !.errno = "EINVAL"], TRUE,
                          "continuous update requires multiple directories")
            ELSE { s }
    IN  { IF ~Running(t) THEN t
          ELSE [t EXCEPT !.pc = "displayOutput"] : t \in checked }

\* After the loop: the consistency checks, and the choice between getPaths
\* and the scan inside lineOutput.
main_check_rest(s) ==
    LET checked ==
            IF s.de.num_dir # s.paths.num_dirs
            THEN logError([s EXCEPT !.errno = "EIO"], TRUE,
                          "directory count mismatch")
            ELSE IF s.dir_cnt = 1 /\ s.opt.upd
            THEN logError([s EXCEPT !.errno = "EINVAL"], TRUE,
                          "continuous update requires multiple directories")
            ELSE { s }
    IN  { IF ~Running(t) THEN t
          ELSE IF ~t.opt.upd THEN [t EXCEPT !.pc = "getPaths", !.cursor = 1]
          ELSE [t EXCEPT !.pc = "displayOutput"] : t \in checked }

main_check(s) ==
    LET defaulted ==
            IF s.dir_cnt = 0
            THEN { IF Running(t) THEN [t EXCEPT !.dir_cnt = @ + 1] ELSE t
                   : t \in addDir(s, Path(TRUE, s.cwd)) }
            ELSE { s }
    IN  Bind(defaulted, main_check_rest)

(***************************************************************************)
(* The entry classifier: getDirStats, one directory entry per step.        *)
(***************************************************************************)
\* The node the cursor points to (the cursor is an index, the head is 1).
NodeAt(s) == s.paths.head[s.cursor]

CursorIsNull(s) == s.cursor > Len(s.paths.head)

\* switch(ep->d_type): the counter a d_type value increments.
counterOf(d_type) ==
    IF d_type = "DT_BLK" THEN "d_blk"
    ELSE IF d_type = "DT_CHR" THEN "d_chr"
    ELSE IF d_type = "DT_DIR" THEN "d_dir"
    ELSE IF d_type = "DT_LNK" THEN "d_lnk"
    ELSE IF d_type = "DT_REG" THEN "d_reg"
    ELSE IF d_type = "DT_WHT" THEN "d_wht"
    ELSE IF d_type = "DT_FIFO" THEN "d_fif"
    ELSE IF d_type = "DT_SOCK" THEN "d_sok"
    ELSE "d_unk"

\* classify with the break of case DT_WHT missing: control falls into
\* case DT_FIFO.
classify_fallthrough(d, d_type) ==
    IF d_type = "DT_WHT"
    THEN [d EXCEPT !.d_wht = @ + 1, !.d_fif = @ + 1]
    ELSE [d EXCEPT ![counterOf(d_type)] = @ + 1]

classify(d, d_type) == [d EXCEPT ![counterOf(d_type)] = @ + 1]

\* Where getDirStats returns to: the loop of getPaths, or the row that
\* lineOutput prints in continuous mode.
getDirStats_return(s) ==
    IF s.caller = "getPaths"
    THEN [s EXCEPT !.pc = "getPaths", !.cursor = @ + 1, !.caller = "none"]
    ELSE [s EXCEPT !.pc = "row", !.caller = "none"]

\* getDirStats_open without the readdir outside the loop.
getDirStats_open_noFirstRead(s, from) ==
    LET dir == NodeAt(s)
        r == Lookup(s.cwd, dir)
        s0 == [s EXCEPT !.caller = from, !.scanned = Append(@, s.cursor)]
    IN  IF r.err = "0" /\ r.at \in DirSet \ Locked
        THEN { [s0 EXCEPT !.dp = [open |-> TRUE, at |-> r.at, pos |-> 0],
                          !.pc = "readdir"] }
        ELSE LET s1 == [s0 EXCEPT !.errno = IF r.err = "0" THEN "EACCES" ELSE r.err]
             IN  { Crash(s1) }
                 \cup { IF Running(t)
                        THEN getDirStats_return([t EXCEPT !.errno = "EINVAL"])
                        ELSE t
                        : t \in logError(s1, FALSE, StrOf(dir)) }

\* dp = opendir(dir_node->dir); ep = readdir(dp); and, when dp is null, the
\* else branch and closedir.
getDirStats_open(s, from) ==
    LET dir == NodeAt(s)
        r == Lookup(s.cwd, dir)
        s0 == [s EXCEPT !.caller = from, !.scanned = Append(@, s.cursor)]
    IN  IF r.err = "0" /\ r.at \in DirSet \ Locked
        THEN \* the first readdir is outside the loop: its entry is dropped
             { [s0 EXCEPT !.dp = [open |-> TRUE, at |-> r.at, pos |-> 1],
                          !.pc = "readdir"] }
        ELSE LET s1 == [s0 EXCEPT !.errno = IF r.err = "0" THEN "EACCES" ELSE r.err]
             IN  \* readdir and closedir on a null DIR pointer: undefined
                 \* behaviour; a build traps, or both calls return an error
                 { Crash(s1) }
                 \cup { IF Running(t)
                        THEN getDirStats_return([t EXCEPT !.errno = "EINVAL"])
                        ELSE t
                        : t \in logError(s1, FALSE, StrOf(dir)) }

HasNextEntry(s) == s.dp.pos < Len(Listing(s.dp.at))

\* One iteration of while ( (ep = readdir(dp)) ) { switch ... }
getDirStats_entry(s) ==
    LET ep == Listing(s.dp.at)[s.dp.pos + 1]
    IN  { [s EXCEPT !.de = classify(@, ep.d_type), !.dp.pos = @ + 1] }

\* readdir returns null: closedir(dp) and return.
getDirStats_close(s) ==
    { getDirStats_return([s EXCEPT !.dp.open = FALSE]) }

\* getPaths: the loop head.
getPaths(s) ==
    IF CursorIsNull(s)
    THEN { [s EXCEPT !.pc = "displayOutput"] }
    ELSE getDirStats_open(s, "getPaths")

(***************************************************************************)
(* The renderers.  Text is a string, built as the printf calls build it.   *)
(***************************************************************************)
\* The backspace character of "\b \n".
BS == "\\b"

RECURSIVE Spaces(_)
Spaces(n) == IF n <= 0 THEN "" ELSE " " \o Spaces(n - 1)

\* printf("%8d", n) and printf("%8s", str)
Fmt8d(n) == Spaces(8 - Len(ToString(n))) \o ToString(n)
Fmt8s(str) == Spaces(8 - Len(str)) \o str

\* pl with the singular form for every count up to 1.
pl_singularZero(cnt, act) ==
    IF cnt <= 1
    THEN (IF act = "rep" THEN "y" ELSE "")
    ELSE (IF act = "rep" THEN "ies" ELSE "s")

pl(cnt, act) ==
    IF cnt = 1
    THEN (IF act = "rep" THEN "y" ELSE "")
    ELSE (IF act = "rep" THEN "ies" ELSE "s")

\* values[] with the first two initialisers in each other's place.
values_dirFirst(d) == << d.d_dir, d.d_reg, d.d_lnk, d.d_blk, d.d_chr,
                         d.d_fif, d.d_sok, d.d_wht, d.d_unk >>

\* int values[] = {de.d_reg, de.d_dir, ...}
values(d) == << d.d_reg, d.d_dir, d.d_lnk, d.d_blk, d.d_chr,
                d.d_fif, d.d_sok, d.d_wht, d.d_unk >>

\* opt.list[i], i from 0
ListAt(s, i) == IF i + 1 <= Len(s.opt.list) THEN StrOf(s.opt.list[i + 1]) ELSE "?"

RECURSIVE ListLines(_, _, _, _)
ListLines(s, i, n, indent) ==
    IF i >= n THEN ""
    ELSE indent \o ListAt(s, i) \o "\n" \o ListLines(s, i + 1, n, indent)

RECURSIVE CursorLines(_, _)
CursorLines(nodes, indent) ==
    IF nodes = <<>> THEN ""
    ELSE indent \o StrOf(Head(nodes)) \o "\n" \o CursorLines(Tail(nodes), indent)

\* getDirList(paths, fmt)
getDirList(s, fmt) ==
    IF fmt = "non"
    THEN IF s.paths.head = <<>> THEN { [s EXCEPT !.opt.list = <<>>] }
         ELSE \* opt.list is a flexible array member with no storage: the
              \* stores are undefined behaviour
              { [s EXCEPT !.opt.list = s.paths.head], Crash(s) }
    ELSE IF fmt = "reg"
    THEN { [s EXCEPT !.stdout = @ \o "Director" \o pl(s.paths.num_dirs, "rep")
                                  \o ":\n" \o CursorLines(s.paths.head, "\t")] }
    ELSE { [s EXCEPT !.stdout = @ \o "Director" \o pl(s.paths.num_dirs, "rep")
                                  \o "\n" \o CursorLines(s.paths.head, "")] }

blockLine(n, label, act) == Fmt8d(n) \o ":" \o label \o pl(n, act) \o "\n"

blockText(s) ==
    (IF ~s.opt.qit
     THEN "Director" \o pl(s.paths.num_dirs, "rep") \o ":\n"
          \o ListLines(s, 0, s.paths.num_dirs, "\t") \o "\nTotals:\n"
     ELSE "")
    \o blockLine(s.de.d_dir, "director", "rep")
    \o blockLine(s.de.d_fif, "FIFO file", "add")
    \o blockLine(s.de.d_chr, "character special file", "add")
    \o blockLine(s.de.d_blk, "block special file", "add")
    \o blockLine(s.de.d_reg, "regular file", "add")
    \o blockLine(s.de.d_lnk, "symlink", "add")
    \o blockLine(s.de.d_sok, "socket", "add")
    \o blockLine(s.de.d_wht, "union whiteout file", "add")
    \o blockLine(s.de.d_unk, "unknown file type", "add")

Called(s, fn, act) == [s EXCEPT !.rendered = Append(@, [fn |-> fn, act |-> act])]

emit(s, text, act) ==
    IF act = "wrt" THEN writeOut(s, text)
    ELSE { [s EXCEPT !.stdout = @ \o text] }

blockOutput(s, act) ==
    LET listed == IF ~s.opt.qit THEN getDirList(Called(s, "blockOutput", act), "non")
                  ELSE { Called(s, "blockOutput", act) }
    IN  UNION { IF Running(t) THEN emit(t, blockText(t), act) ELSE { t }
                : t \in listed }

RECURSIVE csvFields(_, _)
csvFields(fields, i) ==
    IF i > Len(fields) \/ i > num_hdr THEN ""
    ELSE fields[i] \o "," \o csvFields(fields, i + 1)

csvRow(fields) == csvFields(fields, 1) \o BS \o " \n"

csvText(s, vals) ==
    (IF ~s.opt.qit
     THEN "Director" \o pl(s.paths.num_dirs, "rep") \o "\n"
          \o ListLines(s, 0, s.paths.num_dirs, "") \o csvRow(STAT_CSV)
     ELSE "")
    \o csvRow([i \in 1..Len(vals) |-> ToString(vals[i])])

csvOutput(s, act) ==
    LET vals == values(s.de)
        listed == IF ~s.opt.qit THEN getDirList(Called(s, "csvOutput", act), "non")
                  ELSE { Called(s, "csvOutput", act) }
    IN  UNION { IF Running(t) THEN emit(t, csvText(t, vals), act) ELSE { t }
                : t \in listed }

RECURSIVE Repeat(_, _)
Repeat(str, n) == IF n <= 0 THEN "" ELSE str \o Repeat(str, n - 1)

\* printDeco()
printDeco == Repeat("+" \o Repeat("-", num_hdr), num_hdr) \o "+\n"

RECURSIVE lineCells(_, _)
lineCells(cells, i) ==
    IF i > Len(cells) \/ i > num_hdr THEN ""
    ELSE cells[i] \o " |" \o lineCells(cells, i + 1)

valueCells(vals) == lineCells([i \in 1..Len(vals) |-> Fmt8d(vals[i])], 1)

\* lineOutput up to the test of act: the decoration, unless quiet.
lineOutput_header(s) ==
    IF ~s.opt.qit
    THEN { [t EXCEPT !.stdout = @ \o printDeco \o "|"
                                  \o lineCells([i \in 1..Len(STAT_HDR) |->
                                                   Fmt8s(STAT_HDR[i])], 1)
                                  \o "\n" \o printDeco]
           : t \in getDirList(s, "reg") }
    ELSE { s }

\* "Clean up output decorations."
lineOutput_footer(s) ==
    [s EXCEPT !.stdout = @ \o (IF ~s.opt.lin THEN "\n" ELSE "")
                           \o (IF ~s.opt.qit THEN printDeco ELSE "")]

\* lineOutput(paths, prt)
lineOutput_prt(s) ==
    LET vals == values(s.de)
    IN  { lineOutput_footer([t EXCEPT !.stdout = @ \o "|" \o valueCells(vals)])
          : t \in lineOutput_header(Called(s, "lineOutput", "prt")) }

\* lineOutput(paths, cnt) up to the loop over the nodes.
lineOutput_cnt(s) ==
    { [t EXCEPT !.pc = "lineOutput", !.cursor = 1]
      : t \in lineOutput_header(Called(s, "lineOutput", "cnt")) }

\* The loop head of continuous mode: scan the next node, or finish.
lineOutput_loop(s) ==
    IF CursorIsNull(s)
    THEN { [lineOutput_footer(s) EXCEPT !.pc = "file"] }
    ELSE getDirStats_open(s, "lineOutput")

\* lineOutput_row clearing the counters once the row is printed.
lineOutput_row_reset(s) ==
    LET vals == values(s.de)
        row == IF s.opt.lin THEN "|" \o valueCells(vals) \o "\n"
               ELSE "\r|" \o valueCells(vals)
    IN  { [s EXCEPT !.stdout = @ \o row, !.cursor = @ + 1, !.pc = "lineOutput",
                    !.de = [c \in DOMAIN @ |-> IF c \in Counters THEN 0 ELSE @[c]]] }

\* lineOutput_row printing the carriage-return form whatever opt.lin.
lineOutput_row_overwrite(s) ==
    LET vals == values(s.de)
    IN  { [s EXCEPT !.stdout = @ \o "\r|" \o valueCells(vals),
                    !.cursor = @ + 1, !.pc = "lineOutput"] }

\* The row printed after getDirStats returned, and cursor = cursor->next.
lineOutput_row(s) ==
    LET vals == values(s.de)
        row == IF s.opt.lin THEN "|" \o valueCells(vals) \o "\n"
               ELSE "\r|" \o valueCells(vals)
    IN  { [s EXCEPT !.stdout = @ \o row, !.cursor = @ + 1, !.pc = "lineOutput"] }

(***************************************************************************)
(* displayOutput and the end of main.                                      *)
(***************************************************************************)
ToFile(S) == { IF Running(t) THEN [t EXCEPT !.pc = "file"] ELSE t : t \in S }

\* displayOutput_stdout without the case "linear, csv and an output file".
displayOutput_stdout_noLinCsvOut(s) ==
    IF s.opt.upd \/ (s.opt.lin /\ ~s.opt.csv)
    THEN IF s.opt.upd THEN lineOutput_cnt(s) ELSE ToFile(lineOutput_prt(s))
    ELSE IF s.opt.csv /\ ~s.opt.lin /\ ~s.opt.out
    THEN ToFile(csvOutput(s, "prt"))
    ELSE ToFile(blockOutput(s, "prt"))

\* displayOutput_stdout with the test for CSV not looking at linear.
displayOutput_stdout_csvAnyLinear(s) ==
    IF (s.opt.upd \/ (s.opt.lin /\ ~s.opt.csv))
       \/ (s.opt.lin /\ s.opt.csv /\ s.opt.out)
    THEN IF s.opt.upd THEN lineOutput_cnt(s) ELSE ToFile(lineOutput_prt(s))
    ELSE IF s.opt.csv /\ ~s.opt.out
    THEN ToFile(csvOutput(s, "prt"))
    ELSE ToFile(blockOutput(s, "prt"))

\* "Print output as appropriate to STDOUT."
displayOutput_stdout(s) ==
    IF (s.opt.upd \/ (s.opt.lin /\ ~s.opt.csv))
       \/ (s.opt.lin /\ s.opt.csv /\ s.opt.out)
    THEN IF s.opt.upd
         THEN lineOutput_cnt(s)
         ELSE ToFile(lineOutput_prt(s))
    ELSE IF s.opt.csv /\ ~s.opt.lin /\ ~s.opt.out
    THEN ToFile(csvOutput(s, "prt"))
    ELSE ToFile(blockOutput(s, "prt"))

\* displayOutput_file writing no file in continuous mode.
displayOutput_file_notContinuous(s) ==
    LET written == IF s.opt.out /\ ~s.opt.upd
                   THEN (IF s.opt.csv THEN csvOutput(s, "wrt")
                         ELSE blockOutput(s, "wrt"))
                   ELSE { s }
    IN  { IF Running(t) THEN [t EXCEPT !.pc = "exit"] ELSE t : t \in written }

\* displayOutput_file writing CSV whatever the csv flag.
displayOutput_file_csvAlways(s) ==
    LET written == IF s.opt.out THEN csvOutput(s, "wrt") ELSE { s }
    IN  { IF Running(t) THEN [t EXCEPT !.pc = "exit"] ELSE t : t \in written }

\* "Write to the output file in the selected format if requested."
displayOutput_file(s) ==
    LET written == IF s.opt.out
                   THEN (IF s.opt.csv THEN csvOutput(s, "wrt")
                         ELSE blockOutput(s, "wrt"))
                   ELSE { s }
    IN  { IF Running(t) THEN [t EXCEPT !.pc = "exit"] ELSE t : t \in written }

\* main_exit without the fclose of the log file.
main_exit_logLeftOpen(s) ==
    LET s1 == IF s.opt.out THEN [s EXCEPT !.opt.OUTFILE = "closed"] ELSE s
    IN  { exit(s1, s1.errno) }

\* fclose the files that were asked for and exit(errno).
main_exit(s) ==
    LET s1 == IF s.opt.out THEN [s EXCEPT !.opt.OUTFILE = "closed"] ELSE s
        s2 == IF s1.opt.log THEN [s1 EXCEPT !.opt.LOGFILE = "closed"] ELSE s1
    IN  { exit(s2, s2.errno) }

(***************************************************************************)
(* The state machine.                                                      *)
(***************************************************************************)
Init ==
    \E ov \in OptSeqs, av \in SeqsUpTo(ArgForms, MaxArgs) :
        LET s == InitState(ov, av)
        IN  /\ optv = s.optv /\ args = s.args /\ pc = s.pc /\ status = s.status
            /\ opt = s.opt /\ de = s.de /\ paths = s.paths /\ cwd = s.cwd
            /\ errno = s.errno /\ opt_index = s.opt_index
            /\ param_index = s.param_index /\ dir_cnt = s.dir_cnt
            /\ cursor = s.cursor /\ dp = s.dp /\ caller = s.caller
            /\ stdout = s.stdout /\ stderr = s.stderr /\ outfile = s.outfile
            /\ logfile = s.logfile /\ calls = s.calls /\ rendered = s.rendered
            /\ scanned = s.scanned

\* Where main is: the guard of each step.
AtMainOption(s) == s.pc = "options" /\ s.opt_index <= Len(s.optv)
AtMainCreateDirList(s) == s.pc = "options" /\ s.opt_index > Len(s.optv)
AtMainArg(s) == s.pc = "args" /\ s.param_index <= Len(s.args)
AtMainCheck(s) == s.pc = "args" /\ s.param_index > Len(s.args)
AtGetDirStatsEntry(s) == s.pc = "readdir" /\ HasNextEntry(s)
AtGetDirStatsClose(s) == s.pc = "readdir" /\ ~HasNextEntry(s)

MainOption ==
    /\ AtMainOption(State)
    /\ \E t \in main_option(State) : Set(t)

MainCreateDirList ==
    /\ AtMainCreateDirList(State)
    /\ \E t \in main_createDirList(State) : Set(t)

MainArg ==
    /\ AtMainArg(State)
    /\ \E t \in main_arg(State) : Set(t)

MainCheck ==
    /\ AtMainCheck(State)
    /\ \E t \in main_check(State) : Set(t)

GetPaths ==
    /\ pc = "getPaths"
    /\ \E t \in getPaths(State) : Set(t)

GetDirStatsEntry ==
    /\ AtGetDirStatsEntry(State)
    /\ \E t \in getDirStats_entry(State) : Set(t)

GetDirStatsClose ==
    /\ AtGetDirStatsClose(State)
    /\ \E t \in getDirStats_close(State) : Set(t)

DisplayOutputStdout ==
    /\ pc = "displayOutput"
    /\ \E t \in displayOutput_stdout(State) : Set(t)

LineOutputLoop ==
    /\ pc = "lineOutput"
    /\ \E t \in lineOutput_loop(State) : Set(t)

LineOutputRow ==
    /\ pc = "row"
    /\ \E t \in lineOutput_row(State) : Set(t)

DisplayOutputFile ==
    /\ pc = "file"
    /\ \E t \in displayOutput_file(State) : Set(t)

MainExit ==
    /\ pc = "exit"
    /\ \E t \in main_exit(State) : Set(t)

Next ==
    \/ MainOption
    \/ MainCreateDirList
    \/ MainArg
    \/ MainCheck
    \/ GetPaths
    \/ GetDirStatsEntry
    \/ GetDirStatsClose
    \/ DisplayOutputStdout
    \/ LineOutputLoop
    \/ LineOutputRow
    \/ DisplayOutputFile
    \/ MainExit

Spec == Init /\ [][Next]_vars

(***************************************************************************)
(* Whole runs: the states one step after s, and the states a run from s    *)
(* can end in.                                                             *)
(***************************************************************************)
Succ(s) ==
    IF AtMainOption(s) THEN main_option(s)
    ELSE IF AtMainCreateDirList(s) THEN main_createDirList(s)
    ELSE IF AtMainArg(s) THEN main_arg(s)
    ELSE IF AtMainCheck(s) THEN main_check(s)
    ELSE IF s.pc = "getPaths" THEN getPaths(s)
    ELSE IF AtGetDirStatsEntry(s) THEN getDirStats_entry(s)
    ELSE IF AtGetDirStatsClose(s) THEN getDirStats_close(s)
    ELSE IF s.pc = "displayOutput" THEN displayOutput_stdout(s)
    ELSE IF s.pc = "lineOutput" THEN lineOutput_loop(s)
    ELSE IF s.pc = "row" THEN lineOutput_row(s)
    ELSE IF s.pc = "file" THEN displayOutput_file(s)
    ELSE IF s.pc = "exit" THEN main_exit(s)
    ELSE {}

RECURSIVE Finals(_)
Finals(s) == IF ~Running(s) THEN { s } ELSE UNION { Finals(t) : t \in Succ(s) }

\* What a run shows to its user: the tally, what it wrote, how it ended.
Tally(s) == [c \in Counters |-> s.de[c]]

Obs(s) == [tally |-> Tally(s), stdout |-> s.stdout, outfile |-> s.outfile,
           status |-> s.status]

(***************************************************************************)
(* Vocabulary of the properties.                                           *)
(***************************************************************************)
Sum(d) == d.d_reg + d.d_dir + d.d_lnk + d.d_blk + d.d_chr
          + d.d_fif + d.d_sok + d.d_wht + d.d_unk

\* The entries of a directory other than "." and "..".
RECURSIVE RealEntries(_)
RealEntries(ents) ==
    IF ents = <<>> THEN 0
    ELSE (IF Head(ents).d_name \in {CD, PD} THEN 0 ELSE 1) + RealEntries(Tail(ents))

RECURSIVE TotalEntries(_)
TotalEntries(nodes) ==
    IF nodes = <<>> THEN 0
    ELSE RealEntries(Listing(Walk(<<>>, Head(nodes).comps).at))
         + TotalEntries(Tail(nodes))

\* Every directory of the registry can be opened.
AllReadable == \A i \in 1..Len(paths.head) :
                   Walk(<<>>, paths.head[i].comps).at \in DirSet \ Locked

\* Every accepted directory has been scanned and the run goes on.
ScanDone == \/ pc = "displayOutput" /\ ~opt.upd
            \/ pc \in {"file", "exit"}

\* The renderer calls that print to stdout, and those that write the file.
IsWrt(r) == r.act = "wrt"
IsPrint(r) == r.act # "wrt"
StdoutCalls == SelectSeq(rendered, IsPrint)
FileCalls == SelectSeq(rendered, IsWrt)

Last(q) == q[Len(q)]

(***************************************************************************)
(* C1.  After all N accepted (readable) directories have been scanned, the *)
(* sum of the nine counters equals the number of entries of those          *)
(* directories, "." and ".." not counted.  The code drops only the first   *)
(* entry readdir yields, so this is violated.                              *)
(***************************************************************************)
C1_SumIsEntryCount ==
    (ScanDone /\ AllReadable) => Sum(de) = TotalEntries(paths.head)

(***************************************************************************)
(* C2.  A step that classifies a directory entry adds exactly 1 to the     *)
(* counter of the entry's type (the unknown counter for a type value that  *)
(* is not one of the eight named ones) and leaves the other eight as they  *)
(* are; and no step of the run makes any counter smaller.                  *)
(***************************************************************************)
C2_CounterOfType(d_type) ==
    CASE d_type = "DT_REG" -> "d_reg"
      [] d_type = "DT_DIR" -> "d_dir"
      [] d_type = "DT_LNK" -> "d_lnk"
      [] d_type = "DT_BLK" -> "d_blk"
      [] d_type = "DT_CHR" -> "d_chr"
      [] d_type = "DT_FIFO" -> "d_fif"
      [] d_type = "DT_SOCK" -> "d_sok"
      [] d_type = "DT_WHT" -> "d_wht"
      [] OTHER -> "d_unk"

C2_Step ==
    /\ \A c \in Counters : de'[c] >= de[c]
    /\ AtGetDirStatsEntry(State) =>
          LET ep == Listing(dp.at)[dp.pos + 1]
              k == C2_CounterOfType(ep.d_type)
          IN  /\ de'[k] = de[k] + 1
              /\ \A c \in Counters \ {k} : de'[c] = de[c]

C2_ExactlyOneCounter == [][C2_Step]_vars

\* Entries of an unnamed type and of type DT_UNKNOWN have both been counted.
C2_Witness == pc = "readdir" /\ de.d_unk = 2 /\ de.d_wht = 1

(***************************************************************************)
(* C3.  A run without directory arguments ends argument processing with    *)
(* the registry holding exactly the current working directory, and what    *)
(* it shows (tally, stdout, output file, exit status) is what a run given  *)
(* the current working directory as its only argument shows, and the       *)
(* other way round.  The current working directory is named by its         *)
(* absolute path or by ".".                                                *)
(***************************************************************************)
CwdArgs == { Path(TRUE, StartCwd), Path(FALSE, <<CD>>) }

ObsOfRun(ov, av) == { Obs(f) : f \in Finals(InitState(ov, av)) }

\* The run has ended by a call of exit (not by a trap).
Exited == ~Running(State) /\ status # "crashed"

C3_NoArgsIsCwd ==
    /\ (args = <<>> /\ pc \notin {"options", "args", "exited"})
          => paths.head = << Path(TRUE, StartCwd) >>
    /\ (Exited /\ args = <<>>)
          => \A a \in CwdArgs : Obs(State) \in ObsOfRun(optv, <<a>>)
    /\ (Exited /\ Len(args) = 1 /\ args[1] \in CwdArgs)
          => Obs(State) \in ObsOfRun(optv, <<>>)

(***************************************************************************)
(* C4.  A run in continuous mode with one directory argument (or none, the *)
(* current directory standing in) never scans: it stays in option and      *)
(* argument processing or has ended with a non-zero status, no counter was *)
(* incremented and no renderer was called; and when it got through         *)
(* argument processing, what ended it is the fatal usage error.            *)
(***************************************************************************)
UsageMsg == "continuous update requires multiple directories"

C5_Renderer ==
    IF opt.upd \/ (opt.lin /\ ~opt.csv) \/ (opt.lin /\ opt.csv /\ opt.out)
    THEN "lineOutput"
    ELSE IF opt.csv /\ ~opt.lin /\ ~opt.out THEN "csvOutput"
    ELSE "blockOutput"

C5_Text ==
    IF C5_Renderer = "blockOutput" THEN { blockText(State) }
    ELSE IF C5_Renderer = "csvOutput" THEN { csvText(State, values(de)) }
    ELSE { t.stdout : t \in lineOutput_prt([State EXCEPT !.stdout = ""]) }

C6_FileRenderer ==
    /\ ~opt.out => (outfile = "" /\ FileCalls = <<>>)
    /\ (pc = "exit" /\ opt.out) =>
          /\ FileCalls = << [fn |-> IF opt.csv THEN "csvOutput" ELSE "blockOutput",
                             act |-> "wrt"] >>
          /\ outfile = IF opt.csv THEN csvText(State, values(de))
                       ELSE blockText(State)

\* Continuous mode with csv and an output file: the file got the CSV text.
C6_Witness ==
    /\ pc = "exit" /\ opt.upd /\ opt.csv /\ opt.out
    /\ outfile # "" /\ Len(FileCalls) = 1 /\ Len(paths.head) = 2

C8_FileSameAsStdout ==
    (pc = "exit" /\ ~opt.upd /\ opt.lin /\ ~opt.csv /\ opt.out)
        => /\ Len(StdoutCalls) = 1 /\ Len(FileCalls) = 1
           /\ StdoutCalls[1].fn = "lineOutput"
           /\ FileCalls[1].fn = StdoutCalls[1].fn
           /\ outfile = stdout

(***************************************************************************)
(* C8, amended.  In a run that is not continuous, with linear, without csv *)
(* and with an output file, stdout gets the Linear rendering and the file  *)
(* gets the Block rendering.                                               *)
(***************************************************************************)
C8_FileIsBlock ==
    (pc = "exit" /\ ~opt.upd /\ opt.lin /\ ~opt.csv /\ opt.out)
        => /\ rendered = << [fn |-> "lineOutput", act |-> "prt"],
                            [fn |-> "blockOutput", act |-> "wrt"] >>
           /\ outfile = blockText(State)
           /\ stdout \in { t.stdout : t \in lineOutput_prt([State EXCEPT !.stdout = ""]) }

\* Linear went to stdout and Block to the file.
C8_Witness ==
    /\ pc = "exit" /\ ~opt.upd /\ opt.lin /\ ~opt.csv /\ opt.out
    /\ outfile # "" /\ outfile # stdout /\ Sum(de) > 0

(***************************************************************************)
(* C9.  Without an output file, csv changes nothing when linear or         *)
(* continuous is given too: what a run with linear and csv (or continuous  *)
(* and csv) has written to stdout when it exits is what the run with the   *)
(* same command line less csv can write.  The code prints Block for        *)
(* linear with csv, so this is violated.                                   *)
(***************************************************************************)
NotCsv(o) == o # "c"

StdoutOfRun(ov, av) ==
    { f.stdout : f \in { g \in Finals(InitState(ov, av)) : g.status # "crashed" } }

C9_CsvNoEffect ==
    (Exited /\ opt.csv /\ ~opt.out /\ (opt.lin \/ opt.upd))
        => stdout \in StdoutOfRun(SelectSeq(optv, NotCsv), args)

(***************************************************************************)
(* C10, as claimed.  A step that calls logError ends the process if and    *)
(* only if no log file is configured or fail is true.                      *)
(***************************************************************************)
\* The step calls logError: the call log grows.
LogErrorCalled == Len(calls') = Len(calls) + 1

C10_ClaimedStep ==
    LogErrorCalled =>
        LET c == Last(calls')
        IN  (pc' = "exited") <=> (~c.log \/ c.fail)

C10_ExitIffNoLogOrFail == [][C10_ClaimedStep]_vars

(***************************************************************************)
(* C10, amended.  A step that calls logError ends the process if and only  *)
(* if no log file is configured, or fail is true, or the write to the log  *)
(* file fails; with a log file, fail false and the write succeeding, the   *)
(* message with the error text is appended to the log file, nothing goes   *)
(* to stdout and the run goes on.                                          *)
(***************************************************************************)
C10_AmendedStep ==
    LogErrorCalled =>
        LET c == Last(calls')
            wrote == logfile' # logfile
        IN  /\ (pc' = "exited") <=> (~c.log \/ c.fail \/ ~wrote)
            /\ wrote => /\ c.log
                        /\ logfile' = logfile \o c.msg \o ": "
                                              \o strerror(c.errno) \o "\n"
            /\ (c.log /\ ~c.fail /\ wrote)
                  => /\ status' = "running"
                     /\ stdout' = stdout
                     /\ pc' \in {"args", "getPaths", "row"}

C10_ExitIffNoLogOrFailOrWriteFails == [][C10_AmendedStep]_vars

\* An invalid directory was logged and the run went on.
C10_Witness ==
    /\ status = "running" /\ calls # <<>> /\ ~Last(calls).fail
    /\ opt.log /\ logfile # "" /\ pc = "args"

(***************************************************************************)
(* C11.  With a log file configured, a run whose arguments include a valid *)
(* directory and a nonexistent path, and that has come to the end of main, *)
(* exits with code 0, and its tally is that of a run given the valid       *)
(* directories alone.  The errno stat() left behind for the rejected path  *)
(* is what main passes to exit, so this is violated.                       *)
(***************************************************************************)
\* The argument names nothing / names a directory, seen from where the
\* process was started.
Nonexistent(a) == Lookup(StartCwd, a).err # "0"
ValidDir(a) == Lookup(StartCwd, a).err = "0" /\ Lookup(StartCwd, a).at \in DirSet
Readable(a) == Lookup(StartCwd, a).at \notin Locked

TallyOfRun(ov, av) == { Tally(f) : f \in Finals(InitState(ov, av)) }

C11_Step ==
    (/\ pc = "exit" /\ opt.log
     /\ \E i \in 1..Len(args) : Nonexistent(args[i])
     /\ \E i \in 1..Len(args) : ValidDir(args[i])
     /\ \A i \in 1..Len(args) : ValidDir(args[i]) => Readable(args[i]))
        => /\ pc' = "exited" => status' = "0"
           /\ Tally(State) \in TallyOfRun(optv, SelectSeq(args, ValidDir))

C11_LoggedRunExitsZero == [][C11_Step]_vars

(***************************************************************************)
(* C12.  Without a log file, the step of the argument loop that meets an   *)
(* invalid directory argument ends the process with a non-zero exit code:  *)
(* the argument index stays at that argument (no later one is validated),  *)
(* no directory was or is scanned, no renderer was or is called, the       *)
(* output file is empty and stdout holds no statistics (only the text      *)
(* logError prints for the rejected path).                                 *)
(***************************************************************************)
\* The argument the loop is at is one that stat() does not find to be a
\* directory.
AtInvalidArg ==
    /\ AtMainArg(State)
    /\ StrOf(args[param_index]) # CD
    /\ LET r == Lookup(cwd, args[param_index])
       IN  ~(r.err = "0" /\ r.at \in DirSet)

C12_Step ==
    (AtInvalidArg /\ ~opt.log) =>
        /\ pc' = "exited"
        /\ status' \notin {"0", "running", "crashed"}
        /\ param_index' = param_index
        /\ paths' = paths
        /\ \A c \in Counters : de'[c] = 0
        /\ ~dp'.open
        /\ rendered' = <<>>
        /\ outfile' = ""
        /\ stdout' = StrOf(args[param_index]) \o ": " \o strerror(errno') \o "\n"

C12_InvalidArgIsFatalWithoutLog == [][C12_Step]_vars

\* The second argument was invalid and ended the run: the first had been
\* accepted and was never scanned.
C12_Witness ==
    /\ pc = "exited" /\ ~opt.log /\ Len(args) = 2 /\ param_index = 2
    /\ paths.num_dirs = 1 /\ status = "ENOENT" /\ rendered = <<>>

(***************************************************************************)
(* C13.  A step that reports an error through logError puts the error's    *)
(* message (the text and the error string) exactly once on the log file,   *)
(* stdout and stderr taken together: not zero times and not twice.  The    *)
(* code writes a fatal error to the log file and to the terminal when a    *)
(* log file is configured, and drops the message when the write to the     *)
(* log file fails, so this is violated.                                    *)
(***************************************************************************)
\* The message of the call of logError this step makes.
MsgOfCall == Last(calls').msg \o ": " \o strerror(Last(calls').errno) \o "\n"

\* How many of the three streams the step appended the message to.
Copies(m) == (IF logfile' = logfile \o m THEN 1 ELSE 0)
             + (IF stdout' = stdout \o m THEN 1 ELSE 0)
             + (IF stderr' = stderr \o m THEN 1 ELSE 0)

C13_Step == (LogErrorCalled /\ status' # "crashed") => Copies(MsgOfCall) = 1

C13_ExactlyOneMessage == [][C13_Step]_vars

(***************************************************************************)
(* C14.  A step in which logError ends the process because no log file is  *)
(* configured or the error is fatal appends the message to stderr and      *)
(* leaves stdout as it was.  The code prints the message with printf, so   *)
(* this is violated.                                                       *)
(***************************************************************************)
\* The step's call of logError got to its last test and called exit there.
EndedByLogError ==
    /\ LogErrorCalled /\ pc' = "exited" /\ status' \notin {"crashed", "EXIT_FAILURE"}
    /\ (~Last(calls').log \/ Last(calls').fail)

C14_Step ==
    EndedByLogError => /\ stderr' = stderr \o MsgOfCall
                       /\ stdout' = stdout

C14_FatalMessageOnStderr == [][C14_Step]_vars

(***************************************************************************)
(* C15.  A step that ends the process by exit (not by a trap) exits with   *)
(* code 0 if it is the end of main after displayOutput, and with a         *)
(* non-zero code if it is a fatal condition (any other exit).  main exits  *)
(* with whatever errno holds, so the first half is violated.               *)
(***************************************************************************)
C15_Step ==
    (pc # "exited" /\ pc' = "exited" /\ status' # "crashed")
        => IF pc = "exit" THEN status' = "0" ELSE status' # "0"

C15_ExitCodes == [][C15_Step]_vars

(***************************************************************************)
(* C16.  The registry is insertion-ordered.  For a command line of         *)
(* absolute paths (the canonical form of each is the argument itself):     *)
(* once the argument loop is over, the registry read from its head is the  *)
(* accepted arguments in the order of the command line.  addDir links      *)
(* each new node in front of the head, so this is violated.                *)
(***************************************************************************)
AllAbsolute == \A i \in 1..Len(args) : args[i].abs

ArgsDone == Running(State) /\ pc \notin {"options", "args"}

C16_InsertionOrder ==
    (ArgsDone /\ AllAbsolute /\ args # <<>>)
        => paths.head = SelectSeq(args, ValidDir)

(***************************************************************************)
(* C17.  An iteration of the argument loop adds its argument to the        *)
(* registry if and only if the argument, resolved from the directory the   *)
(* process was started in, exists and is a directory, whatever arguments   *)
(* came before.  testDir resolves a relative argument from the directory   *)
(* the last accepted relative argument moved the process to, so this is    *)
(* violated.                                                               *)
(***************************************************************************)
C17_Step ==
    (AtMainArg(State) /\ status' # "crashed")
        => ((paths'.num_dirs = paths.num_dirs + 1) <=> ValidDir(args[param_index]))

C17_AcceptedIffDirectory == [][C17_Step]_vars

(***************************************************************************)
(* C20.  A step that validates a path (an iteration of the argument loop,  *)
(* or the addition of the default directory) leaves the working directory  *)
(* of the process as it was.  testDir calls chdir for a relative path, so  *)
(* this is violated.                                                       *)
(***************************************************************************)
C20_Step ==
    ((AtMainArg(State) \/ AtMainCheck(State)) /\ status' # "crashed")
        => cwd' = cwd

C20_CwdUnchanged == [][C20_Step]_vars

(***************************************************************************)
(* The nine categories as the outputs name them: the CSV header field, the *)
(* counter that holds the category's count, and the Block label in its     *)
(* singular and plural form; in the order of the CSV header.               *)
(***************************************************************************)
Cat(csvName, counter, singular, plural) ==
    [csv |-> csvName, counter |-> counter, singular |-> singular, plural |-> plural]

Categories ==
    << Cat("Regular", "d_reg", "regular file", "regular files"),
       Cat("Directory", "d_dir", "directory", "directories"),
       Cat("Link", "d_lnk", "symlink", "symlinks"),
       Cat("Block Special", "d_blk", "block special file", "block special files"),
       Cat("Character Special", "d_chr", "character special file",
           "character special files"),
       Cat("FIFO", "d_fif", "FIFO file", "FIFO files"),
       Cat("Socket", "d_sok", "socket", "sockets"),
       Cat("White Out", "d_wht", "union whiteout file", "union whiteout files"),
       Cat("Unknown", "d_unk", "unknown file type", "unknown file types") >>

\* The order of the lines of the Block rendering, as indices of Categories.
BlockOrder == << 2, 6, 5, 4, 1, 3, 7, 8, 9 >>

\* The Block line of a category: the count right-justified in 8 columns, a
\* colon, the label in the form that goes with the count.
ExpectedBlockLine(cat, n) ==
    Fmt8d(n) \o ":" \o (IF n = 1 THEN cat.singular ELSE cat.plural) \o "\n"

RECURSIVE ExpectedBlockLines(_, _)
ExpectedBlockLines(d, i) ==
    IF i > Len(BlockOrder) THEN ""
    ELSE ExpectedBlockLine(Categories[BlockOrder[i]],
                           d[Categories[BlockOrder[i]].counter])
         \o ExpectedBlockLines(d, i + 1)

\* The heading of the Block rendering of a run that is not quiet.
ExpectedBlockHeading ==
    IF opt.qit THEN ""
    ELSE (IF paths.num_dirs = 1 THEN "Directory:\n" ELSE "Directories:\n")
         \o ListLines(State, 0, paths.num_dirs, "\t") \o "\nTotals:\n"

BlockOnStdout ==
    /\ pc \in {"file", "exit"}
    /\ StdoutCalls = << [fn |-> "blockOutput", act |-> "prt"] >>

(***************************************************************************)
(* C18.  pl gives "" (add) and "y" (rep) for a count of 1 and "s" and      *)
(* "ies" for every other count, 0 included; so a run that printed the      *)
(* Block rendering has on stdout, for each of the nine labels, the count   *)
(* followed by the singular label when the count is 1 and by the plural    *)
(* label otherwise, and "Directory:" or "Directories:" as the heading.     *)
(***************************************************************************)
C18_Pluralisation ==
    /\ \A n \in { de[c] : c \in Counters } \cup { paths.num_dirs } :
          /\ pl(n, "add") = (IF n = 1 THEN "" ELSE "s")
          /\ pl(n, "rep") = (IF n = 1 THEN "y" ELSE "ies")
    /\ BlockOnStdout => stdout = ExpectedBlockHeading \o ExpectedBlockLines(de, 1)

\* Block was printed for a tally with a count of 0, of 1 (add and rep) and
\* of 2.
C18_Witness ==
    /\ BlockOnStdout /\ ~opt.qit /\ paths.num_dirs = 1
    /\ de.d_reg = 0 /\ de.d_dir = 1 /\ de.d_lnk = 1 /\ de.d_unk = 2

(***************************************************************************)
(* C19.  CSV and Block show the same counts.  A run with csv and an        *)
(* output file (not linear, not continuous) renders one tally both ways,   *)
(* Block on stdout and CSV in the file: the i-th data field of the CSV     *)
(* text is the count of the category the i-th header field names, and the  *)
(* Block line with that category's label shows the same count.             *)
(***************************************************************************)
RECURSIVE ExpectedCsvHeader(_)
ExpectedCsvHeader(i) ==
    IF i > Len(Categories) THEN ""
    ELSE Categories[i].csv \o "," \o ExpectedCsvHeader(i + 1)

RECURSIVE ExpectedCsvData(_, _)
ExpectedCsvData(d, i) ==
    IF i > Len(Categories) THEN ""
    ELSE ToString(d[Categories[i].counter]) \o "," \o ExpectedCsvData(d, i + 1)

\* The CSV text: the list of directories and the header unless quiet, then
\* the data row; each row ends with the comma, a backspace, a space.
ExpectedCsvText ==
    (IF opt.qit THEN ""
     ELSE (IF paths.num_dirs = 1 THEN "Directory\n" ELSE "Directories\n")
          \o ListLines(State, 0, paths.num_dirs, "")
          \o ExpectedCsvHeader(1) \o BS \o " \n")
    \o ExpectedCsvData(de, 1) \o BS \o " \n"

BothRendered ==
    /\ pc = "exit" /\ opt.csv /\ opt.out /\ ~opt.lin /\ ~opt.upd

C19_CsvAndBlockAgree ==
    /\ \A i \in 1..Len(Categories) : STAT_CSV[i] = Categories[i].csv
    /\ BothRendered => /\ outfile = ExpectedCsvText
                       /\ stdout = ExpectedBlockHeading \o ExpectedBlockLines(de, 1)

\* Both renderings were made of a tally with nine counts that are not all
\* the same.
C19_Witness ==
    /\ BothRendered /\ outfile # "" /\ stdout # ""
    /\ de.d_reg = 1 /\ de.d_dir = 2 /\ de.d_lnk = 0

(***************************************************************************)
(* C21.  A step that calls getDirStats on an accepted directory that       *)
(* cannot be opened reports it through logError(false, path), with every   *)
(* counter left as it is, and with a log file configured (and written)     *)
(* the run goes on to the next directory.  getDirStats calls readdir on    *)
(* the null DIR pointer before it tests it, which is undefined behaviour:  *)
(* the run can end in a trap with nothing reported, so this is violated.   *)
(***************************************************************************)
\* The step calls getDirStats on a node whose directory opendir() refuses.
AtUnopenable ==
    /\ pc \in {"getPaths", "lineOutput"} /\ ~CursorIsNull(State)
    /\ LET r == Lookup(cwd, NodeAt(State))
       IN  ~(r.err = "0" /\ r.at \in DirSet \ Locked)

C21_Step ==
    AtUnopenable =>
        /\ LogErrorCalled
        /\ ~Last(calls').fail
        /\ Last(calls').msg = StrOf(NodeAt(State))
        /\ \A c \in Counters : de'[c] = de[c]
        /\ (opt.log /\ logfile' # logfile)
              => /\ status' = "running"
                 /\ pc' = IF pc = "getPaths" THEN "getPaths" ELSE "row"

C21_UnopenableIsReported == [][C21_Step]_vars

(***************************************************************************)
(* C22.  The step that ends main after displayOutput closes each of the    *)
(* two file handles if and only if it is open, a handle is open there if   *)
(* and only if its option was given, and no other step closes a handle:    *)
(* every handle that was opened is closed exactly once, and none that was  *)
(* never opened is closed.                                                 *)
(***************************************************************************)
Handles == {"OUTFILE", "LOGFILE"}

C22_Step ==
    /\ (pc = "exit" /\ pc' = "exited")
          => /\ opt.OUTFILE = (IF opt.out THEN "open" ELSE "NULL")
             /\ opt.LOGFILE = (IF opt.log THEN "open" ELSE "NULL")
             /\ \A h \in Handles :
                   opt'[h] = (IF opt[h] = "open" THEN "closed" ELSE opt[h])
             /\ status' = errno
    /\ \A h \in Handles :
          (opt'[h] = "closed" /\ opt[h] # "closed")
              => (pc = "exit" /\ opt[h] = "open")

C23_ClosedOnEveryExit ==
    (pc = "exited" /\ status # "crashed") => \A h \in Handles : opt[h] # "open"

(***************************************************************************)
(* What a scan is expected to add to the tally, computed from the listing  *)
(* of a directory: every entry but the first that readdir yields, each in  *)
(* the counter of its type; nothing for a directory that cannot be opened. *)
(***************************************************************************)
ZeroTally == [c \in Counters |-> 0]

AddTally(a, b) == [c \in Counters |-> a[c] + b[c]]

RECURSIVE TallyOfEntries(_)
TallyOfEntries(ents) ==
    IF ents = <<>> THEN ZeroTally
    ELSE LET rest == TallyOfEntries(Tail(ents))
         IN  [rest EXCEPT ![C2_CounterOfType(Head(ents).d_type)] = @ + 1]

DirOf(node) == Walk(<<>>, node.comps).at

ExpectedScan(node) ==
    IF DirOf(node) \in DirSet \ Locked
    THEN TallyOfEntries(Tail(Listing(DirOf(node))))
    ELSE ZeroTally

\* The tally after the scans of the first n nodes of the registry.
RECURSIVE ExpectedTally(_, _)
ExpectedTally(nodes, n) ==
    IF n = 0 THEN ZeroTally
    ELSE AddTally(ExpectedTally(nodes, n - 1), ExpectedScan(nodes[n]))

(***************************************************************************)
(* C24, as claimed.  From the call of a renderer to its return no counter  *)
(* changes, in every mode.                                                 *)
(***************************************************************************)
\* Control is inside displayOutput: about to call a renderer, or in
\* lineOutput's loop, or in the getDirStats that loop called.
InRenderer ==
    \/ pc \in {"displayOutput", "lineOutput", "row", "file"}
    \/ pc = "readdir" /\ caller = "lineOutput"

C24_ClaimedStep == InRenderer => \A c \in Counters : de'[c] = de[c]

C24_RenderersOnlyRead == [][C24_ClaimedStep]_vars

(***************************************************************************)
(* C24, amended.  blockOutput, csvOutput and lineOutput called to print    *)
(* once leave every counter as it is, and so does every step of            *)
(* lineOutput's own code in continuous mode (heading, loop head, row);     *)
(* but in continuous mode lineOutput calls getDirStats for each node, so   *)
(* the counters grow (and never shrink) between its call and its return.   *)
(***************************************************************************)
C24_AmendedStep ==
    /\ (pc \in {"displayOutput", "lineOutput", "row", "file"})
          => \A c \in Counters : de'[c] = de[c]
    /\ (pc = "readdir" /\ caller = "lineOutput")
          => /\ opt.upd
             /\ \A c \in Counters : de'[c] >= de[c]
    /\ (opt.upd /\ pc = "displayOutput") => Tally(State) = ZeroTally

C24_RenderersReadExceptContinuousScan == [][C24_AmendedStep]_vars

\* Inside lineOutput in continuous mode, the first directory scanned: the
\* counters are no longer what they were when lineOutput was called.
C24_Witness ==
    /\ opt.upd /\ pc = "row" /\ cursor = 1 /\ Sum(de) > 0
    /\ rendered = << [fn |-> "lineOutput", act |-> "cnt"] >>

(***************************************************************************)
(* C25.  In continuous mode, when lineOutput has returned, stdout holds    *)
(* the heading followed by one row per node of the registry, in registry   *)
(* order, the i-th row showing the tally after the scans of nodes 1..i     *)
(* (so the rows never decrease and the last one is the final tally); a row *)
(* is "|...|" and a newline when linear was given, and a carriage return   *)
(* followed by "|...|" otherwise; then the closing decoration.             *)
(***************************************************************************)
RECURSIVE ExpectedCells(_, _)
ExpectedCells(tally, i) ==
    IF i > Len(Categories) THEN ""
    ELSE Fmt8d(tally[Categories[i].counter]) \o " |" \o ExpectedCells(tally, i + 1)

ExpectedRow(tally) ==
    IF opt.lin THEN "|" \o ExpectedCells(tally, 1) \o "\n"
    ELSE "\r|" \o ExpectedCells(tally, 1)

RECURSIVE ExpectedRows(_, _)
ExpectedRows(nodes, n) ==
    IF n = 0 THEN ""
    ELSE ExpectedRows(nodes, n - 1) \o ExpectedRow(ExpectedTally(nodes, n))

\* What lineOutput prints before and after the rows.
LineHeading == { t.stdout : t \in lineOutput_header([State EXCEPT !.stdout = ""]) }
LineClosing == lineOutput_footer([State EXCEPT !.stdout = ""]).stdout

ContinuousDone == opt.upd /\ pc \in {"file", "exit"}

C25_ContinuousRows ==
    ContinuousDone =>
        /\ stdout \in { h \o ExpectedRows(paths.head, Len(paths.head)) \o LineClosing
                        : h \in LineHeading }
        /\ Tally(State) = ExpectedTally(paths.head, Len(paths.head))
        /\ scanned = [i \in 1..Len(paths.head) |-> i]

\* Two directories were scanned and two rows printed, each on a new line.
C25_Witness ==
    /\ ContinuousDone /\ opt.lin /\ Len(paths.head) = 2
    /\ ExpectedTally(paths.head, 1) # ExpectedTally(paths.head, 2)
    /\ ExpectedTally(paths.head, 1) # ZeroTally

(***************************************************************************)
(* C26, as claimed.  In every configuration a renderer is called at most   *)
(* once for stdout and at most once for the file, and none is called, and  *)
(* nothing is in the output file, while a node of the registry is still    *)
(* unscanned.                                                              *)
(***************************************************************************)
\* Every node of the registry was passed to getDirStats and no scan is
\* going on.
AllScanned ==
    /\ pc # "readdir"
    /\ \A i \in 1..Len(paths.head) : \E j \in 1..Len(scanned) : scanned[j] = i

DecidedOnce == Len(StdoutCalls) <= 1 /\ Len(FileCalls) <= 1

C26_OutputAfterScanning ==
    /\ DecidedOnce
    /\ (rendered # <<>> \/ outfile # "") => AllScanned

(***************************************************************************)
(* C26, amended.  The decision is made once.  When continuous is not set,  *)
(* no renderer is called and nothing is in the output file while a node    *)
(* is unscanned.  When continuous is set, the renderer for stdout is       *)
(* called before the first scan and prints its rows while later nodes are  *)
(* unscanned; the file is still written only after the last scan.          *)
(***************************************************************************)
C26_OutputAfterScanningUnlessContinuous ==
    /\ DecidedOnce
    /\ ~opt.upd => ((rendered # <<>> \/ outfile # "") => AllScanned)
    /\ opt.upd => /\ (FileCalls # <<>> \/ outfile # "") => AllScanned
                  /\ scanned # <<>> => StdoutCalls # <<>>

\* Continuous mode: the first row is printed and the second node is still
\* to be scanned.
C26_Witness ==
    /\ opt.upd /\ pc = "lineOutput" /\ cursor = 2 /\ Len(paths.head) = 2
    /\ scanned = <<1>> /\ stdout # ""

(***************************************************************************)
(* C27.  In every state of a run the count testDir keeps (de.num_dir),     *)
(* the count addDir keeps (paths->num_dirs) and the number of nodes of     *)
(* the list are equal, and logError is never called for a directory count  *)
(* mismatch.                                                               *)
(***************************************************************************)
MismatchMsg == "directory count mismatch"

C27_CountsAgree ==
    /\ de.num_dir = paths.num_dirs
    /\ paths.num_dirs = Len(paths.head)
    /\ \A i \in 1..Len(calls) : calls[i].msg # MismatchMsg

\* Two arguments were processed: one accepted, one rejected and logged.
C27_Witness ==
    /\ pc = "args" /\ param_index = 3 /\ paths.num_dirs = 1
    /\ Len(calls) = 1 /\ ~calls[1].fail

(***************************************************************************)
(* C28.  No node of the registry is passed to getDirStats twice, and when  *)
(* displayOutput has returned each node was passed to it exactly once, in  *)
(* list order; the scans are made by getPaths when continuous is off and   *)
(* by lineOutput when it is on; and a directory given twice on the command *)
(* line is two nodes, so its entries are counted twice.                    *)
(***************************************************************************)
SameTwice ==
    /\ Len(args) = 2 /\ args[1] = args[2] /\ args[1].abs
    /\ ValidDir(args[1]) /\ Readable(args[1])

TallyBefore == ExpectedTally(paths.head, cursor - 1)

C29_FirstEntryDropped ==
    pc = "readdir" =>
        /\ dp.open /\ dp.at = DirOf(NodeAt(State))
        /\ dp.pos >= 1 /\ dp.pos <= Len(Listing(dp.at))
        /\ Tally(State)
              = AddTally(TallyBefore,
                         TallyOfEntries(SubSeq(Listing(dp.at), 2, dp.pos)))
        /\ ~HasNextEntry(State)
              => Sum(de) = Sum(TallyBefore) + Len(Listing(dp.at)) - 1

\* The scan of /d is at its end: ".." came first and was dropped, "." was
\* counted as a directory, 9 of the 10 entries are in the tally.
C29_Witness ==
    /\ pc = "readdir" /\ ~HasNextEntry(State) /\ cursor = 1
    /\ dp.at = <<"d">> /\ Len(Listing(dp.at)) = 10
    /\ de.d_dir = 1 /\ Sum(de) = 9

(***************************************************************************)
(* C30.  In continuous mode, the step of main after the argument loop      *)
(* reports the usage error if and only if at most one directory argument   *)
(* was supplied, whatever the number of accepted directories; with two     *)
(* supplied it goes on to displayOutput, also with a registry of one.      *)
(***************************************************************************)
C30_Step ==
    (AtMainCheck(State) /\ opt.upd /\ status' # "crashed")
        => /\ (LogErrorCalled /\ Last(calls').msg = UsageMsg) <=> Len(args) <= 1
           /\ Len(args) >= 2 => /\ pc' = "displayOutput"
                                /\ status' = "running"
                                /\ paths' = paths

C30_RejectionBySuppliedCount == [][C30_Step]_vars

\* Two paths supplied, one rejected and logged: lineOutput has scanned the
\* one directory of the registry.
C30_Witness ==
    /\ opt.upd /\ opt.log /\ Len(args) = 2 /\ paths.num_dirs = 1
    /\ pc = "row" /\ Len(calls) = 1 /\ calls[1].msg # UsageMsg /\ Sum(de) > 0

====
